---- MODULE Spec2Model ----
(***************************************************************************)
(* pw-push-to-talk (src/src/main.rs): two threads and the PipeWire server. *)
(*                                                                         *)
(*  - the Watcher thread (listen_for_nodes) owns a connection, receives    *)
(*    the registry's notifications, binds a proxy for every configured     *)
(*    binding whose name matches, mutes it and pushes it into the shared   *)
(*    vector `nodes` (the Binding Table, a Mutex<Vec<..>>);                *)
(*  - the Dispatcher thread (the loop of main) owns another connection,    *)
(*    takes key events, walks `nodes` under the mutex, calls set_mute on   *)
(*    the matching proxies and then do_roundtrip on its own connection;    *)
(*  - the server processes each connection's requests in FIFO order.       *)
(*                                                                         *)
(* A proxy belongs to the connection whose registry bound it (line 303),   *)
(* so every set_mute, whichever thread calls it, is written to the         *)
(* Watcher's connection.                                                   *)
(***************************************************************************)
EXTENDS Integers, Sequences, FiniteSets, TLC

\* ---------------------------------------------------------------- bounds
MaxKeyEvents == 3      \* key events the input source delivers
MaxAdds == 2           \* objects the server ever creates
MaxId == 2             \* server ids are 1..MaxId, reused after removal
MaxBindings == 2       \* --node / --node-toggle occurrences on the command line
MaxProxies == 2        \* proxies the Watcher ever binds
MaxRemoves == 1        \* objects the server ever destroys
MaxStray == 1          \* done events per do_roundtrip call that are not its answer

\* ------------------------------------------------------------- constants
PW_ID_CORE == 0

HOLD == "HOLD"
TOGGLE == "TOGGLE"
PRESS == "PRESS"
RELEASE == "RELEASE"

KeyTypes == {HOLD, TOGGLE}
KeyEventTypes == {PRESS, RELEASE}

\* keysyms of the configured keys (XK_A, XK_B)
Keys == {65, 66}
\* node.name values the command line may name
Names == {"Mic1", "Mic2"}
\* --release-delay values, in milliseconds
Delays == {0, 200}

Ids == 1..MaxId

\* What an add-notification can describe: a Node with a node.name (one that
\* may be configured, or another one), a Node without node.name, an object of
\* another type, and an object without properties.
GlobalKinds ==
    {[props |-> TRUE, type_ |-> "Node", name |-> n] : n \in Names \cup {"Speaker"}}
    \cup {[props |-> TRUE, type_ |-> "Node", name |-> "none"],
          [props |-> TRUE, type_ |-> "Link", name |-> "Mic1"],
          [props |-> FALSE, type_ |-> "Node", name |-> "none"]}

\* The objects that are Nodes with a node.name.
NodeKinds == {g \in GlobalKinds : g.props /\ g.type_ = "Node" /\ g.name # "none"}

\* The (name, (type, keysym)) pairs of the command line: node_args for
\* "node" (HOLD) extended by node_args for "node-toggle" (TOGGLE). Names and
\* keys are interchangeable, so the first pair is taken to name Mic1 and XK_A.
PairSet == [name : Names, key_type : KeyTypes, key : Keys]
node_args(n) ==
    {c \in [1..n -> PairSet] :
        /\ \A i, j \in 1..n : i < j => ~(c[i].key_type = TOGGLE /\ c[j].key_type = HOLD)
        /\ c[1].name = "Mic1" /\ c[1].key = 65}
Configs == UNION {node_args(n) : n \in 1..MaxBindings}

VARIABLES
    \* configuration, fixed by main before the threads start
    pairs,          \* the configured bindings
    release_delay,  \* --release-delay
    \* shared between the threads
    nodes,          \* the Binding Table: Seq of [handle, global_id, key_type, key]
    lock,           \* the mutex around nodes: "free", "W" or "D"
    \* Dispatcher (main's loop)
    dpc,            \* "next_event", "lock", "iter", "sleep", "send", "sync", "wait"
    event,          \* the key event being handled
    change,         \* main's local
    idx,            \* position of the for loop in nodes
    sendMute,       \* the mute value the pending set_mute call carries
    key_states,     \* HashMap<u32, bool>: a function from the inserted global_ids
    pending,        \* do_roundtrip's pending sequence number
    coreSeq,        \* the Dispatcher connection's sequence counter
    \* Watcher (listen_for_nodes)
    wpc,            \* "loop", "bind", "lock", "push"
    wglobal,        \* the object the callback is handling
    wmatch,         \* indices of pairs still to be handled by the for_each
    proxies,        \* proxies bound so far: handle h is bound to instance proxies[h]
    \* connections and server
    wconn,          \* requests written to the Watcher's connection, not yet processed
    dconn,          \* requests written to the Dispatcher's connection, not yet processed
    dinbox,         \* done events sent to the Dispatcher, not yet dispatched
    live,           \* server: id -> instance number of the live object, 0 if none
    srvMute,        \* server: mute property of each instance ever created
    dProcessed,     \* server: requests of the Dispatcher's connection processed
    \* history
    hlog,           \* per handle, the set_mute calls made on it
    nEvents,        \* key events taken so far
    cur,            \* for the event being handled: set_mute calls, syncs, returns,
                    \* done events received that answer no sync of the call
    keyDown,        \* per key, whether its last event was a PRESS
    seen,           \* per entry of nodes, the types of the events whose key matched it
    toggleLog,      \* per global_id, the values the toggle branch sent
    connUsers,      \* per connection, the threads that wrote a request to it
    syncCount,      \* per connection, the sync requests written to it
    gkinds          \* per instance, the object the add-notification announced

cfgVars == <<pairs, release_delay>>
tableVars == <<nodes, lock>>
dispVars == <<dpc, event, change, idx, sendMute, key_states, pending, coreSeq>>
watchVars == <<wpc, wglobal, wmatch, proxies>>
connVars == <<wconn, dconn, dinbox>>
srvVars == <<live, srvMute, dProcessed>>
histVars == <<hlog, nEvents, cur, keyDown, seen, toggleLog, connUsers, syncCount,
              gkinds>>

vars == <<cfgVars, tableVars, dispVars, watchVars, connVars, srvVars, histVars>>

NoEvent == [type_ |-> "none", keysym |-> 0]
NoGlobal == [id |-> 0, inst |-> 0]

Init ==
    /\ pairs \in Configs
    /\ release_delay \in Delays
    /\ nodes = <<>>
    /\ lock = "free"
    /\ dpc = "next_event"
    /\ event = NoEvent
    /\ change = FALSE
    /\ idx = 0
    /\ sendMute = FALSE
    /\ key_states = [i \in {} |-> TRUE]
    /\ pending = 0
    /\ coreSeq = 0
    /\ wpc = "loop"
    /\ wglobal = NoGlobal
    /\ wmatch = <<>>
    /\ proxies = <<>>
    /\ wconn = <<>>
    /\ dconn = <<>>
    /\ dinbox = <<>>
    /\ live = [i \in Ids |-> 0]
    /\ srvMute = <<>>
    /\ dProcessed = 0
    /\ hlog = <<>>
    /\ nEvents = 0
    /\ cur = [reqs |-> 0, syncs |-> 0, rets |-> 0, strays |-> 0]
    /\ keyDown = [k \in Keys |-> FALSE]
    /\ seen = <<>>
    /\ toggleLog = [i \in Ids |-> <<>>]
    /\ connUsers = [c \in {"W", "D"} |-> {}]
    /\ syncCount = [c \in {"W", "D"} |-> 0]
    /\ gkinds = <<>>

\* ------------------------------------------------------------ set_mute
\* The connection a proxy writes to: the one of the registry that bound it.
\* Every proxy is bound by the Watcher's registry.
ProxyConn(h) == "W"

\* Both threads are about to write to the Watcher's connection at once: the
\* Watcher inside its callback (bind, set_mute, outside the mutex) and the
\* Dispatcher in set_mute. Node is Send only by an unsafe impl; the
\* connection is not thread-safe, so this is a data race.
Racing == wpc = "bind" /\ dpc = "send"

\* What the race can do to the request being written: it arrives intact, or
\* it is garbled and never acted on.
WriteOutcomes == IF Racing THEN {TRUE, FALSE} ELSE {TRUE}

\* create_mute_pod(mute): a Props object with the single property mute.
create_mute_pod(mute) ==
    [type_ |-> "SPA_TYPE_OBJECT_Props", id |-> "SPA_PARAM_Props",
     key |-> "SPA_PROP_mute", value |-> mute]
MUTE_POD == create_mute_pod(TRUE)
UNMUTE_POD == create_mute_pod(FALSE)

\* set_mute(node, mute) called by thread `by`: a set_param request carrying
\* the MUTE_POD or the UNMUTE_POD, written to the proxy's connection. `n`
\* tells which of the entry's matching events the call is for (0 for the
\* Watcher's), `log` is hlog with the proxy's entry present.
set_mute(h, mute, by, n, intact, log) ==
    LET pod == IF mute THEN MUTE_POD ELSE UNMUTE_POD
    IN  /\ wconn' = IF intact
                    THEN Append(wconn, [handle |-> h, pod |-> pod, by |-> by])
                    ELSE wconn
        /\ hlog' = [log EXCEPT ![h] =
                        Append(@, [by |-> by, mute |-> pod.value, n |-> n,
                                   sy |-> IF by = "W" THEN 0 ELSE cur.syncs])]
        /\ connUsers' = [connUsers EXCEPT ![ProxyConn(h)] = @ \cup {by}]

\* ------------------------------------------------------------- server
Instances == 1..Len(srvMute)
IsLive(inst) == \E i \in Ids : live[i] = inst

\* An instance the server created and has destroyed since.
Removed(inst) == inst \in Instances /\ ~IsLive(inst)

\* The server destroys an object and the client, idle, empties the table as
\* a handler of the remove-notification could.
ServerRemovePurging(id) ==
    /\ live[id] # 0
    /\ Cardinality({i \in Instances : ~IsLive(i)}) < MaxRemoves
    /\ lock = "free"
    /\ wpc = "loop"
    /\ live' = [live EXCEPT ![id] = 0]
    /\ srvMute' = [srvMute EXCEPT ![live[id]] = FALSE]
    /\ nodes' = <<>>
    /\ seen' = <<>>
    /\ UNCHANGED <<cfgVars, lock, dispVars, watchVars, connVars, dProcessed, hlog,
                   nEvents, cur, keyDown, toggleLog, connUsers, syncCount, gkinds>>

\* The server destroys an object, properties and all; its id becomes free
\* for a later object. The registry listener registers no global_remove
\* callback, so the remove-notification changes nothing in the client: the
\* proxies bound to the object stay in nodes.
ServerRemove(id) ==
    /\ live[id] # 0
    /\ Cardinality({i \in Instances : ~IsLive(i)}) < MaxRemoves
    /\ live' = [live EXCEPT ![id] = 0]
    /\ srvMute' = [srvMute EXCEPT ![live[id]] = FALSE]
    /\ UNCHANGED <<cfgVars, tableVars, dispVars, watchVars, connVars, dProcessed,
                   histVars>>

\* The server processes the oldest request of the Watcher's connection: a
\* set_param sets the mute property of the proxy's object if it still exists.
ServerProcessW ==
    /\ wconn # <<>>
    /\ LET r == Head(wconn)
           inst == proxies[r.handle]
       IN  srvMute' = IF IsLive(inst) /\ r.pod.key = "SPA_PROP_mute"
                      THEN [srvMute EXCEPT ![inst] = r.pod.value]
                      ELSE srvMute
    /\ wconn' = Tail(wconn)
    /\ UNCHANGED <<cfgVars, tableVars, dispVars, watchVars, dconn, dinbox, live,
                   dProcessed, histVars>>

\* The server processes the oldest request of the Dispatcher's connection: a
\* sync(id, seq) is answered by done(id, seq).
ServerProcessD ==
    /\ dconn # <<>>
    /\ dinbox' = Append(dinbox, [id |-> Head(dconn).id, seq |-> Head(dconn).seq])
    /\ dconn' = Tail(dconn)
    /\ dProcessed' = dProcessed + 1
    /\ UNCHANGED <<cfgVars, tableVars, dispVars, watchVars, wconn, live, srvMute,
                   histVars>>

\* The done events that are not the answer to the pending sync: one for the
\* core with another sequence number, one with that number for another id.
StrayDones ==
    {[id |-> PW_ID_CORE, seq |-> pending - 1], [id |-> PW_ID_CORE + 1, seq |-> pending]}

\* While do_roundtrip runs its loop, the connection delivers a done event
\* that is not the answer to its sync, ahead of the answer; the done callback
\* is called for every done event of the core.
ServerStrayDone(d) ==
    /\ dpc = "wait"
    /\ UNCHANGED gkinds
    /\ dinbox = <<>>
    /\ cur.strays < MaxStray
    /\ dinbox' = Append(dinbox, d)
    /\ cur' = [cur EXCEPT !.strays = @ + 1]
    /\ UNCHANGED <<cfgVars, tableVars, dispVars, watchVars, wconn, dconn, srvVars,
                   hlog, nEvents, keyDown, seen, toggleLog, connUsers, syncCount>>

\* ------------------------------------------------------------ Watcher
\* The indices of the pairs the callback's filter keeps for an object, in
\* order: none unless the object has properties, is a Node and has a
\* node.name.
RECURSIVE FilterPairs(_, _)
FilterPairs(name, i) ==
    IF i > Len(pairs) THEN <<>>
    ELSE (IF pairs[i].name = name THEN <<i>> ELSE <<>>) \o FilterPairs(name, i + 1)

\* A callback without the test of the object's type.
GlobalMatchesAnyType(g) ==
    IF ~g.props THEN <<>>
    ELSE IF g.name = "none" THEN <<>>
    ELSE FilterPairs(g.name, 1)

GlobalMatches(g) ==
    IF ~g.props THEN <<>>
    ELSE IF g.type_ # "Node" THEN <<>>
    ELSE IF g.name = "none" THEN <<>>
    ELSE FilterPairs(g.name, 1)

\* The server creates an object (it gets the lowest id no live object has;
\* a new node is not muted) and mainloop.run() dispatches the
\* add-notification to the global callback, which returns at once unless
\* some pair matches.
WatcherGlobal(id, kind) ==
    /\ wpc = "loop"
    /\ Len(srvMute) < MaxAdds
    /\ Len(proxies) + Len(GlobalMatches(kind)) <= MaxProxies
    /\ live[id] = 0
    /\ \A j \in Ids : j < id => live[j] # 0
    /\ live' = [live EXCEPT ![id] = Len(srvMute) + 1]
    /\ srvMute' = Append(srvMute, FALSE)
    /\ LET m == GlobalMatches(kind)
       IN  IF m = <<>>
           THEN UNCHANGED <<wpc, wglobal, wmatch>>
           ELSE /\ wpc' = "bind"
                /\ wglobal' = [id |-> id, inst |-> Len(srvMute) + 1]
                /\ wmatch' = m
    /\ gkinds' = Append(gkinds, kind)
    /\ UNCHANGED <<cfgVars, tableVars, dispVars, proxies, connVars, dProcessed,
                   hlog, nEvents, cur, keyDown, seen, toggleLog, connUsers,
                   syncCount>>

\* A Watcher that unmutes the proxies it binds.
InitialUnmute == FALSE

\* The mute value the Watcher gives a proxy it has just bound.
InitialMute == TRUE

\* registry.bind(global) and set_mute(&node.proxy, true), before the mutex is
\* taken.
WatcherBindMute ==
    /\ wpc = "bind"
    /\ UNCHANGED gkinds
    /\ proxies' = Append(proxies, wglobal.inst)
    /\ \E intact \in WriteOutcomes :
         set_mute(Len(proxies) + 1, InitialMute, "W", 0, intact, Append(hlog, <<>>))
    /\ wpc' = "lock"
    /\ UNCHANGED <<cfgVars, tableVars, dispVars, wglobal, wmatch, dconn, dinbox,
                   srvVars, nEvents, cur, keyDown, seen, toggleLog, syncCount>>

\* out.lock().unwrap()
WatcherLock ==
    /\ wpc = "lock"
    /\ lock = "free"
    /\ lock' = "W"
    /\ wpc' = "push"
    /\ UNCHANGED <<cfgVars, nodes, dispVars, wglobal, wmatch, proxies, connVars,
                   srvVars, histVars>>

\* vec.push((node, *key)); the guard is dropped at the end of the closure,
\* and the for_each goes on to the next matching pair or the callback returns.
WatcherPush ==
    /\ wpc = "push"
    /\ UNCHANGED gkinds
    /\ nodes' = Append(nodes, [handle |-> Len(proxies), global_id |-> wglobal.id,
                               key_type |-> pairs[Head(wmatch)].key_type,
                               key |-> pairs[Head(wmatch)].key])
    /\ seen' = Append(seen, <<>>)
    /\ lock' = "free"
    /\ wmatch' = Tail(wmatch)
    /\ wpc' = IF Tail(wmatch) = <<>> THEN "loop" ELSE "bind"
    /\ UNCHANGED <<cfgVars, dispVars, wglobal, proxies, connVars, srvVars, hlog,
                   nEvents, cur, keyDown, toggleLog, connUsers, syncCount>>

\* ---------------------------------------------------------- Dispatcher
\* HOLD with the test of the event type inverted.
HoldMuteInverted(type_) == type_ = PRESS

\* HOLD: unmute on press, back to mute on release.
HoldMute(type_) == type_ = RELEASE

\* The toggle with or_insert(false) in place of or_insert(true).
ToggleFlipFromFalse(states, id) == ~(IF id \in DOMAIN states THEN states[id] ELSE FALSE)

\* key_states.entry(global_id).or_insert(true), then *state = !*state.
ToggleFlip(states, id) == ~(IF id \in DOMAIN states THEN states[id] ELSE TRUE)

\* The for loop that passes every entry whatever its key is.
NextMatchAnyKey(i, keysym) == IF i > Len(nodes) THEN Len(nodes) + 1 ELSE i

\* The first entry at or after position i whose key is the event's
\* (`if key == *k`), Len(nodes) + 1 if there is none.
RECURSIVE NextMatch(_, _)
NextMatch(i, keysym) ==
    IF i > Len(nodes) THEN Len(nodes) + 1
    ELSE IF nodes[i].key = keysym THEN i
    ELSE NextMatch(i + 1, keysym)

\* listener.next_event() returns a key event (repeats are filtered out).
DispatcherNextEvent(type_, keysym) ==
    /\ dpc = "next_event"
    /\ UNCHANGED gkinds
    /\ nEvents < MaxKeyEvents
    /\ event' = [type_ |-> type_, keysym |-> keysym]
    /\ change' = FALSE
    /\ nEvents' = nEvents + 1
    /\ cur' = [reqs |-> 0, syncs |-> 0, rets |-> 0, strays |-> 0]
    /\ keyDown' = [keyDown EXCEPT ![keysym] = (type_ = PRESS)]
    /\ dpc' = "lock"
    /\ UNCHANGED <<cfgVars, tableVars, idx, sendMute, key_states, pending, coreSeq,
                   watchVars, connVars, srvVars, hlog, seen, toggleLog, connUsers,
                   syncCount>>

\* nodes.lock().unwrap(): the guard lives until the for loop ends. The loop
\* starts and passes the entries of other keys.
DispatcherLock ==
    /\ dpc = "lock"
    /\ lock = "free"
    /\ lock' = "D"
    /\ idx' = NextMatch(1, event.keysym)
    /\ dpc' = "iter"
    /\ UNCHANGED <<cfgVars, nodes, event, change, sendMute, key_states, pending,
                   coreSeq, watchVars, connVars, srvVars, histVars>>

\* The body of the for loop for an entry of the event's key, up to the
\* set_mute call (or the sleep before it).
DispatcherIter ==
    /\ dpc = "iter"
    /\ UNCHANGED gkinds
    /\ idx <= Len(nodes)
    /\ seen' = [seen EXCEPT ![idx] = Append(@, event.type_)]
    /\ LET n == nodes[idx] IN
       IF n.key_type = HOLD
       THEN /\ sendMute' = HoldMute(event.type_)
            /\ dpc' = IF HoldMute(event.type_) /\ release_delay > 0 THEN "sleep" ELSE "send"
            /\ UNCHANGED <<idx, key_states>>
       ELSE IF event.type_ = PRESS
       THEN /\ key_states' = [i \in DOMAIN key_states \cup {n.global_id} |->
                                 IF i = n.global_id THEN ToggleFlip(key_states, i)
                                 ELSE key_states[i]]
            /\ sendMute' = ToggleFlip(key_states, n.global_id)
            /\ dpc' = "send"
            /\ UNCHANGED idx
       ELSE /\ idx' = NextMatch(idx + 1, event.keysym)
            /\ UNCHANGED <<dpc, sendMute, key_states>>
    /\ UNCHANGED <<cfgVars, tableVars, event, change, pending, coreSeq, watchVars,
                   connVars, srvVars, hlog, nEvents, cur, keyDown, toggleLog,
                   connUsers, syncCount>>

\* thread::sleep(release_delay), with the mutex held.
DispatcherSleep ==
    /\ dpc = "sleep"
    /\ dpc' = "send"
    /\ UNCHANGED <<cfgVars, tableVars, event, change, idx, sendMute, key_states,
                   pending, coreSeq, watchVars, connVars, srvVars, histVars>>

\* A loop body that forgets to record that it sent a request.
ChangeNeverSet == FALSE

\* `change = true;` after each set_mute call of the loop.
ChangeAfterSend == TRUE

\* set_mute(&node.proxy, mute); change = true.
DispatcherSetMute ==
    /\ dpc = "send"
    /\ UNCHANGED gkinds
    /\ \E intact \in WriteOutcomes :
         set_mute(nodes[idx].handle, sendMute, "D", Len(seen[idx]), intact, hlog)
    /\ cur' = [cur EXCEPT !.reqs = @ + 1]
    /\ toggleLog' = IF nodes[idx].key_type = TOGGLE
                    THEN [toggleLog EXCEPT ![nodes[idx].global_id] = Append(@, sendMute)]
                    ELSE toggleLog
    /\ change' = ChangeAfterSend
    /\ idx' = NextMatch(idx + 1, event.keysym)
    /\ dpc' = "iter"
    /\ UNCHANGED <<cfgVars, tableVars, event, sendMute, key_states, pending, coreSeq,
                   watchVars, dconn, dinbox, srvVars, nEvents, keyDown, seen,
                   syncCount>>

\* The for loop ends and the guard is dropped; `if change` decides whether
\* do_roundtrip is called.
DispatcherUnlock ==
    /\ dpc = "iter"
    /\ idx > Len(nodes)
    /\ lock' = "free"
    /\ dpc' = IF change THEN "sync" ELSE "next_event"
    /\ UNCHANGED <<cfgVars, nodes, event, change, idx, sendMute, key_states, pending,
                   coreSeq, watchVars, connVars, srvVars, histVars>>

\* The connection of the mainloop and core main passes to do_roundtrip.
RoundtripConn == "D"

\* do_roundtrip: pending = core.sync(0), written to the connection of the
\* core it is given.
DispatcherSync ==
    /\ dpc = "sync"
    /\ UNCHANGED gkinds
    /\ coreSeq' = coreSeq + 1
    /\ pending' = coreSeq + 1
    /\ dconn' = Append(dconn, [id |-> PW_ID_CORE, seq |-> coreSeq + 1])
    /\ connUsers' = [connUsers EXCEPT ![RoundtripConn] = @ \cup {"D"}]
    /\ syncCount' = [syncCount EXCEPT ![RoundtripConn] = @ + 1]
    /\ cur' = [cur EXCEPT !.syncs = @ + 1]
    /\ dpc' = "wait"
    /\ UNCHANGED <<cfgVars, tableVars, event, change, idx, sendMute, key_states,
                   watchVars, wconn, dinbox, srvVars, hlog, nEvents, keyDown, seen,
                   toggleLog>>

\* A done callback whose test never succeeds.
DoneNeverMatches(id, seq) == FALSE

\* A done callback that does not compare the sequence number.
DoneMatchesAnySeq(id, seq) == id = PW_ID_CORE

\* The done callback's test.
DoneMatches(id, seq) == id = PW_ID_CORE /\ seq = pending

\* The loop of do_roundtrip never entered, whatever the flag is.
LoopExitNoWait(done) == TRUE

\* `while !done.get() { mainloop.run() }`: do_roundtrip returns once the
\* done callback has set the flag (and quit the loop).
LoopExit(done) == done

\* do_roundtrip's loop dispatches a done event: one that is not the awaited
\* one is dropped, the awaited one ends the call.
DispatcherDone ==
    /\ dpc = "wait"
    /\ UNCHANGED gkinds
    /\ \/ /\ dinbox # <<>>
          /\ ~DoneMatches(Head(dinbox).id, Head(dinbox).seq)
          /\ dinbox' = Tail(dinbox)
          /\ UNCHANGED <<dpc, cur>>
       \/ /\ LoopExit(dinbox # <<>> /\ DoneMatches(Head(dinbox).id, Head(dinbox).seq))
          /\ dinbox' = IF dinbox # <<>> THEN Tail(dinbox) ELSE dinbox
          /\ dpc' = "next_event"
          /\ cur' = [cur EXCEPT !.rets = @ + 1]
    /\ UNCHANGED <<cfgVars, tableVars, event, change, idx, sendMute, key_states,
                   pending, coreSeq, watchVars, wconn, dconn, srvVars, hlog, nEvents,
                   keyDown, seen, toggleLog, connUsers, syncCount>>

\* ------------------------------------------------------- specification
Next ==
    \/ \E id \in Ids : ServerRemove(id)
    \/ ServerProcessW
    \/ ServerProcessD
    \/ \E id \in Ids, kind \in NodeKinds : WatcherGlobal(id, kind)
    \/ WatcherBindMute
    \/ WatcherLock
    \/ WatcherPush
    \/ \E t \in KeyEventTypes, k \in Keys : DispatcherNextEvent(t, k)
    \/ DispatcherLock
    \/ DispatcherIter
    \/ DispatcherSleep
    \/ DispatcherSetMute
    \/ DispatcherUnlock
    \/ DispatcherSync
    \/ DispatcherDone

Spec == Init /\ [][Next]_vars

\* The program with one binding, on a connection that also delivers done
\* events do_roundtrip did not ask for.
BarrierInit == Init /\ Len(pairs) = 1

BarrierNext ==
    \/ Next
    \/ \E d \in StrayDones : ServerStrayDone(d)

BarrierSpec == BarrierInit /\ [][BarrierNext]_vars

\* The program with a release delay, on a server that also announces
\* objects that are not Nodes, have no node.name or have no properties.
WatcherInit == Init /\ release_delay > 0

WatcherNext ==
    \/ Next
    \/ \E id \in Ids, kind \in GlobalKinds \ NodeKinds : WatcherGlobal(id, kind)

WatcherSpec == WatcherInit /\ [][WatcherNext]_vars

\* The same, with a server that answers every sync it is sent and a
\* Dispatcher thread that keeps running its loop.
LiveSpec ==
    /\ BarrierInit
    /\ [][BarrierNext]_vars
    /\ WF_vars(ServerProcessD)
    /\ WF_vars(DispatcherDone)

\* ------------------------------------------------------------- claims
\* The set_mute calls the Dispatcher made on a proxy, in order.
DReqs(h) == SelectSeq(hlog[h], LAMBDA r : r.by = "D")

\* The for loop of the event being handled is past entry e.
LoopPast(e) == dpc \notin {"iter", "sleep", "send"} \/ idx > e

\* The number of PRESS events among the first p events that matched entry e.
RECURSIVE Presses(_, _)
Presses(e, p) ==
    IF p = 0 THEN 0
    ELSE Presses(e, p - 1) + (IF seen[e][p] = PRESS THEN 1 ELSE 0)

ToggleEntries == {e \in 1..Len(nodes) : nodes[e].key_type = TOGGLE}
HoldEntries == {e \in 1..Len(nodes) : nodes[e].key_type = HOLD}

\* Entry e has seen a PRESS of its key and then, as the next event of that
\* key, a RELEASE, and the loop is done with the entry for the RELEASE.
PressThenRelease(e, p) ==
    /\ p + 1 <= Len(seen[e])
    /\ seen[e][p] = PRESS
    /\ seen[e][p + 1] = RELEASE
    /\ (p + 1 < Len(seen[e]) \/ LoopPast(e))

\* C1: for a HOLD entry of the table, a PRESS of its key followed by a
\* RELEASE makes the Dispatcher call set_mute on the entry's proxy exactly
\* twice, unmute then mute, with no other request on that proxy in between;
\* every event for which set_mute was called is followed by exactly one
\* do_roundtrip, called after the event's set_mute calls, which has returned
\* when the Dispatcher waits for the next event.
C1_HoldPressRelease ==
    /\ \A e \in HoldEntries : \A p \in 1..Len(seen[e]) :
         PressThenRelease(e, p) =>
           LET h == nodes[e].handle
               unmute == [by |-> "D", mute |-> FALSE, n |-> p, sy |-> 0]
               mute == [by |-> "D", mute |-> TRUE, n |-> p + 1, sy |-> 0]
           IN  /\ \E i \in 1..(Len(hlog[h]) - 1) :
                     hlog[h][i] = unmute /\ hlog[h][i + 1] = mute
               /\ Len(SelectSeq(hlog[h], LAMBDA r : r.n \in {p, p + 1})) = 2
    /\ (dpc = "next_event" /\ cur.reqs > 0) => (cur.syncs = 1 /\ cur.rets = 1)
    /\ cur.rets <= cur.syncs /\ cur.syncs <= 1
    /\ cur.syncs = 1 => cur.reqs > 0

\* C1 witness: a HOLD entry has been through PRESS then RELEASE and the
\* do_roundtrip of the RELEASE has returned.
C1_Witness ==
    \E e \in HoldEntries :
        /\ Len(seen[e]) >= 2
        /\ PressThenRelease(e, Len(seen[e]) - 1)
        /\ dpc = "next_event"
        /\ cur.rets = 1

\* C2 as stated: the n-th PRESS that matched a TOGGLE entry sends mute = TRUE
\* when n is odd and mute = FALSE when n is even.
C2_OddPressMutes ==
    \A e \in ToggleEntries :
        \A i \in 1..Len(DReqs(nodes[e].handle)) :
            LET r == DReqs(nodes[e].handle)[i]
            IN  r.mute = (Presses(e, r.n) % 2 = 1)

\* Entry e is the only TOGGLE entry of the table with its global_id.
SoleToggle(e) ==
    \A f \in ToggleEntries : nodes[f].global_id = nodes[e].global_id => f = e

\* C2 amended: the n-th set_mute call of the toggle branch for a global_id
\* carries mute = FALSE when n is odd and mute = TRUE when n is even; for a
\* TOGGLE entry that is the only one with its global_id, that is the n-th
\* PRESS that matched it.
C2_OddPressUnmutes ==
    /\ \A id \in Ids : \A n \in 1..Len(toggleLog[id]) :
           toggleLog[id][n] = (n % 2 = 0)
    /\ \A e \in ToggleEntries : SoleToggle(e) =>
           \A i \in 1..Len(DReqs(nodes[e].handle)) :
               LET r == DReqs(nodes[e].handle)[i]
               IN  r.mute = (Presses(e, r.n) % 2 = 0)

\* C2 witness: a TOGGLE entry, alone with its global_id, has been sent the
\* requests of two PRESS events.
C2_Witness ==
    \E e \in ToggleEntries :
        /\ SoleToggle(e)
        /\ Len(DReqs(nodes[e].handle)) >= 2
        /\ Presses(e, Len(seen[e])) >= 2

\* C3: for a TOGGLE entry of the table, the set_mute calls the Dispatcher
\* makes on its proxy alternate FALSE, TRUE, FALSE, ... from the first one,
\* one per PRESS that matched the entry and none for a RELEASE.
C3_ToggleAlternates ==
    \A e \in ToggleEntries :
        LET d == DReqs(nodes[e].handle)
        IN  /\ \A i \in 1..Len(d) :
                  /\ d[i].mute = (i % 2 = 0)
                  /\ seen[e][d[i].n] = PRESS
            /\ LoopPast(e) => Len(d) = Presses(e, Len(seen[e]))

\* C4: when do_roundtrip returns, the server has processed every request
\* written to that connection before the call (all of them earlier sync
\* requests: the Dispatcher's connection carries nothing else).
C4_BarrierCoversEarlier ==
    [][(dpc = "wait" /\ dpc' = "next_event")
          => dProcessed >= syncCount[RoundtripConn] - 1]_vars

\* C4 witness: a do_roundtrip has returned on a connection that had an
\* earlier request written to it.
C4_Witness ==
    /\ dpc = "next_event"
    /\ cur.rets = 1
    /\ syncCount[RoundtripConn] >= 2

\* C5: when the Dispatcher waits for its next key event, the server has
\* processed every set_mute request the Dispatcher wrote for the events
\* before: none of them is still on a connection.
C5_FlushedBeforeNextEvent ==
    dpc = "next_event" => \A i \in 1..Len(wconn) : wconn[i].by # "D"

\* C6: each connection carries the requests of one thread only, its owner:
\* the Watcher's those of the Watcher, the Dispatcher's those of the
\* Dispatcher.
C6_ConnectionsPrivate ==
    \A c \in {"W", "D"} : connUsers[c] \subseteq {c}

\* C7: the Dispatcher calls set_mute on a proxy only while it holds the
\* mutex and only if the proxy's object has not been removed; the Watcher
\* pushes an entry only while it holds the mutex.
C7_NoUseAfterRemove ==
    [][/\ (dpc = "send" /\ dpc' # "send") =>
             (lock = "D" /\ ~Removed(proxies[nodes[idx].handle]))
       /\ (nodes' # nodes) => lock = "W"]_vars

\* C8: when the Dispatcher waits for its next event and the server has
\* processed every request, each live node that a HOLD entry of the table is
\* bound to is unmuted exactly if the entry's key is down.
C8_HoldTracksKeyDown ==
    (dpc = "next_event" /\ wconn = <<>> /\ dconn = <<>>) =>
        \A e \in HoldEntries :
            LET inst == proxies[nodes[e].handle]
            IN  IsLive(inst) => (~srvMute[inst] <=> keyDown[nodes[e].key])

\* C9: for every entry of the table, the first set_mute call ever made on its
\* proxy is the Watcher's, with mute = TRUE, made before the entry was pushed.
C9_BoundMeansMuted ==
    \A e \in 1..Len(nodes) :
        LET h == nodes[e].handle
        IN  /\ Len(hlog[h]) >= 1
            /\ hlog[h][1] = [by |-> "W", mute |-> TRUE, n |-> 0, sy |-> 0]

\* C9 witness: the Watcher has pushed an entry and is back in its loop.
C9_Witness ==
    /\ Len(nodes) >= 1
    /\ wpc = "loop"
    /\ hlog[nodes[1].handle][1].by = "W"

\* C10: when the Watcher is back in its loop after binding proxies, it has
\* run one sync round trip on its own connection for each object it bound
\* proxies for.
C10_WatcherBarrier ==
    wpc = "loop" =>
        syncCount["W"] >= Cardinality({proxies[h] : h \in 1..Len(proxies)})

\* No entry of the table has the key of the event being handled.
NoEntryForKey == \A e \in 1..Len(nodes) : nodes[e].key # event.keysym

\* C11: a key event whose key no entry of the table has, at the time the
\* Dispatcher takes the mutex for it, goes through the loop and back to
\* next_event without a set_mute call, without a sync, and with the table,
\* the toggle states and both connections unchanged.
C11_UnboundKeyNoOp ==
    [][(dpc \in {"lock", "iter"} /\ dpc' # dpc /\ NoEntryForKey) =>
          /\ dpc' = IF dpc = "lock" THEN "iter" ELSE "next_event"
          /\ UNCHANGED <<nodes, key_states, wconn, dconn, hlog, toggleLog,
                         syncCount, cur, change>>
          /\ cur.reqs = 0 /\ cur.syncs = 0 /\ ~change]_vars

\* C11 witness: an event was handled whose key none of the entries of a
\* non-empty table has, and the Dispatcher is back at next_event.
C11_Witness ==
    /\ dpc = "next_event"
    /\ nEvents >= 1
    /\ Len(nodes) >= 1
    /\ NoEntryForKey
    /\ cur = [reqs |-> 0, syncs |-> 0, rets |-> 0, strays |-> 0]

\* C12: for each key event the Dispatcher calls do_roundtrip once if the
\* loop made at least one set_mute call and not at all otherwise, and every
\* set_mute call of the event is made before the do_roundtrip call.
C12_OneBarrierPerEvent ==
    /\ dpc = "next_event" =>
          /\ cur.syncs = (IF cur.reqs > 0 THEN 1 ELSE 0)
          /\ cur.rets = cur.syncs
    /\ dpc \in {"sync", "wait"} => cur.reqs > 0
    /\ dpc \in {"lock", "iter", "sleep", "send", "sync"} => cur.syncs = 0
    /\ \A h \in 1..Len(hlog) : \A i \in 1..Len(hlog[h]) : hlog[h][i].sy = 0

\* C12 witness: an event that matched two entries made two set_mute calls
\* and one do_roundtrip call, which has returned.
C12_Witness ==
    /\ dpc = "next_event"
    /\ cur.reqs >= 2
    /\ cur.syncs = 1
    /\ cur.rets = 1

\* C13: while the Dispatcher sleeps for the release delay, a Watcher that has
\* bound and muted a new proxy can take the mutex for its push.
C13_SleepBlocksDispatcherOnly ==
    (dpc = "sleep" /\ wpc = "lock") => ENABLED WatcherLock

\* C14: the mutex is not held by a thread that is blocked: the Dispatcher
\* does not hold it in next_event, in do_roundtrip or in its release-delay
\* sleep, the Watcher does not hold it while waiting in its main loop; under
\* the mutex there is only the lookup or push and the set_mute call.
C14_LockOnlyAroundTableUse ==
    /\ dpc \in {"next_event", "lock", "sync", "wait", "sleep"} => lock # "D"
    /\ wpc \in {"loop", "bind", "lock"} => lock # "W"

\* C15: when the Watcher pushes a TOGGLE entry, the toggle state the
\* Dispatcher will use for its global_id is true, and the first set_mute call
\* of the toggle branch on an entry's proxy carries false (the state flipped
\* from true).
C15_ToggleTrueAtBind ==
    [][/\ (wpc = "push" /\ wpc' # "push"
              /\ pairs[Head(wmatch)].key_type = TOGGLE) =>
             (wglobal.id \in DOMAIN key_states => key_states[wglobal.id])
       /\ (dpc = "iter" /\ dpc' = "send" /\ nodes[idx].key_type = TOGGLE
              /\ DReqs(nodes[idx].handle) = <<>>) =>
             sendMute' = FALSE]_vars

\* The done event that answers the sync of the running do_roundtrip call.
AwaitedDone == [id |-> PW_ID_CORE, seq |-> pending]

\* C16: do_roundtrip returns only on receiving the done event of the core
\* with the sequence number its own sync request was given; a done event with
\* another sequence number or for another id leaves it waiting.
C16_ReturnsOnOwnAckOnly ==
    [][/\ (dpc = "wait" /\ dpc' # "wait") =>
             /\ dinbox # <<>>
             /\ Head(dinbox) = AwaitedDone
             /\ pending = coreSeq
       /\ (dpc = "wait" /\ dinbox # <<>> /\ Head(dinbox) # AwaitedDone
              /\ dinbox' = Tail(dinbox)) =>
             dpc' = "wait"]_vars

\* C16 witness: a do_roundtrip call was delivered a done event that was not
\* its answer, and has returned.
C16_Witness ==
    /\ dpc = "next_event"
    /\ cur.rets = 1
    /\ cur.strays = 1
    /\ dinbox = <<>>

\* C17: do_roundtrip has no timeout. With a server that answers every sync,
\* every do_roundtrip call returns; as long as the answer to the pending sync
\* has not arrived the call does not return, so the Dispatcher takes no
\* further event.
C17_BarrierReturnsIffAcked ==
    /\ (dpc = "wait") ~> (dpc = "next_event")
    /\ [][(dpc = "wait" /\ \A i \in 1..Len(dinbox) : dinbox[i] # AwaitedDone) =>
             (dpc' = "wait" /\ nEvents' = nEvents)]_vars

\* C17 witness: do_roundtrip has been waiting with its sync unanswered, the
\* answer came and the call has returned.
C17_Witness ==
    /\ dpc = "next_event"
    /\ cur.syncs = 1
    /\ cur.rets = 1
    /\ dProcessed = syncCount[RoundtripConn]
    /\ dProcessed >= 2

\* The configured bindings, by position, whose name is the node.name of an
\* object that has properties and is a Node; none for any other object.
Expected(g) ==
    IF g.props /\ g.type_ = "Node"
    THEN SelectSeq([i \in 1..Len(pairs) |-> i], LAMBDA i : pairs[i].name = g.name)
    ELSE <<>>

\* The entries of the table whose proxy is bound to an instance, in order.
EntriesOf(inst) == SelectSeq(nodes, LAMBDA n : proxies[n.handle] = inst)

\* The Watcher's callback for an instance has returned.
CallbackDone(inst) == wpc = "loop" \/ wglobal.inst # inst

\* C18: the add-notification of an object puts into the table one entry for
\* each configured binding named like the object, in the order of the
\* bindings, with the object's id, if the object has properties and is a
\* Node; for any other object it inserts nothing, binds no proxy and so makes
\* no request. One set_mute call of the Watcher is made per proxy bound.
C18_OneEntryPerMatchingBinding ==
    \A inst \in 1..Len(gkinds) :
        LET exp == Expected(gkinds[inst])
            ent == EntriesOf(inst)
            bound == {h \in 1..Len(proxies) : proxies[h] = inst}
        IN  /\ Len(ent) <= Len(exp)
            /\ CallbackDone(inst) =>
                  (Len(ent) = Len(exp) /\ Cardinality(bound) = Len(exp))
            /\ \A j \in 1..Len(ent) :
                  /\ ent[j].key_type = pairs[exp[j]].key_type
                  /\ ent[j].key = pairs[exp[j]].key
                  /\ IsLive(inst) => live[ent[j].global_id] = inst
            /\ exp = <<>> => bound = {}
            /\ \A h \in bound :
                  Len(SelectSeq(hlog[h], LAMBDA r : r.by = "W")) = 1

\* C18 witness: one object got an entry for each of two bindings, and
\* another, which is not a Node or has no properties, got none.
C18_Witness ==
    /\ wpc = "loop"
    /\ \E i, j \in 1..Len(gkinds) :
          /\ Len(EntriesOf(i)) = 2
          /\ (~gkinds[j].props \/ gkinds[j].type_ # "Node")
          /\ EntriesOf(j) = <<>>

\* C19: on every proxy the first set_mute call is the Watcher's, with mute
\* = TRUE, and it is the Watcher's only one; the Dispatcher calls set_mute
\* only on proxies that are in the table, so after that call; and on the
\* connection the requests for one proxy keep that order.
C19_InitialMuteFirst ==
    /\ \A h \in 1..Len(hlog) : \A i \in 1..Len(hlog[h]) :
          /\ (hlog[h][i].by = "W") <=> (i = 1)
          /\ (i = 1) => hlog[h][i].mute
    /\ \A h \in 1..Len(hlog) :
          (\A e \in 1..Len(nodes) : nodes[e].handle # h) => DReqs(h) = <<>>
    /\ \A e \in 1..Len(nodes) : hlog[nodes[e].handle] # <<>>
    /\ \A i, j \in 1..Len(wconn) :
          (wconn[i].handle = wconn[j].handle /\ wconn[i].by = "D"
              /\ wconn[j].by = "W") => j < i

\* C19 witness: the connection holds, for one proxy, the Watcher's mute and
\* behind it an unmute of the Dispatcher.
C19_Witness ==
    \E i, j \in 1..Len(wconn) :
        /\ i < j
        /\ wconn[i].handle = wconn[j].handle
        /\ wconn[i].by = "W"
        /\ wconn[j].by = "D"
        /\ ~wconn[j].pod.value
        /\ Len(hlog[wconn[i].handle]) = 2

\* C20: no step removes or changes an entry of the table: its length never
\* decreases and every entry stays as it was pushed, also when the server
\* destroys the entry's object.
C20_TableAppendOnly ==
    [][/\ Len(nodes') >= Len(nodes)
       /\ \A e \in 1..Len(nodes) : nodes'[e] = nodes[e]]_vars

\* C20 witness: an entry is in the table whose object the server has
\* destroyed, and the Dispatcher has handled a key event since.
C20_Witness ==
    /\ \E e \in 1..Len(nodes) :
          /\ Removed(proxies[nodes[e].handle])
          /\ Len(seen[e]) >= 1
    /\ dpc = "next_event"

====
